---- MODULE Spec2Model ----
(***************************************************************************)
(* Credential validation and quota enforcement of booster-app.             *)
(*                                                                         *)
(* The storage tables (ApiKeys, Users, UserSubscriptions, ApiLogs,         *)
(* MonthlyUsage) are variables; every request handler is a process whose   *)
(* steps are the code between two awaits.  A storage call may fail, in     *)
(* which case it changes nothing and the awaiting code sees an exception.  *)
(***************************************************************************)
EXTENDS Integers, Sequences, FiniteSets, TLC

\* ---------------------------------------------------------------- bounds
MaxKeys == 2        \* credentials that can exist
MaxReq == 2         \* validation requests issued in one behaviour
MaxMonth == 2       \* calendar months the clock runs through
MaxTier == 2        \* tiers; tier t allows t calls a month
MaxInc == 3         \* concurrent incrementApiCall invocations
MaxSubs == 2        \* subscriptions that can be requested
MaxHooks == 2       \* webhooks registered for one event
MaxCalls == 3       \* ApiClient.fetch calls in flight in the browser
MaxStore == 1002    \* storeTimingLog calls
MaxLimit == 3       \* largest limit asked of getTimingLogs

KeyIds == 1..MaxKeys
UserIds == {1}
SubIds == 1..MaxSubs
TierIds == 1..MaxTier
ReqIds == 1..MaxReq
Months == 1..MaxMonth

VARIABLES
    apiKeys,        \* [ApiKeys]           : key id -> row
    users,          \* [Users]             : user id -> row
    subs,           \* [UserSubscriptions] : subscription id -> row
    apiLogs,        \* [ApiLogs]           : set of rows
    now,            \* wall clock, in calendar months
    req,            \* request id -> state of the handler serving it
    peak,           \* key id -> most requests ever at once between quota read and log write
    revoked,        \* key ids for which revokeApiKey has succeeded
    gen,            \* the generateNewApiKey call in progress
    monthlyUsage,   \* [MonthlyUsage]      : sequence of rows
    inc,            \* invocation id -> state of an incrementApiCall
    subReq,         \* invocation id -> state of a requestSubscription
    wh,             \* the triggerWebhook call, the POSTs it sent and [WebhookLogs]
    client,         \* the browser's ApiClient and the fetch calls it is serving
    timingLogsBuffer, \* the in-memory timing log of the image endpoint
    timing          \* storeTimingLog calls made so far and the last getTimingLogs reply

dbVars == <<apiKeys, users, subs, apiLogs, now>>
reqVars == <<req, peak, revoked, gen>>
usageVars == <<monthlyUsage, inc>>
auxVars == <<wh, client, timingLogsBuffer, timing>>
vars == <<apiKeys, users, subs, apiLogs, now, req, peak, revoked, gen, monthlyUsage, inc,
          subReq, wh, client, timingLogsBuffer, timing>>

\* ------------------------------------------------------------ cryptoUtils
\* 'sk_' + randomBytes(24): the random part of key k is k.
generateApiKey(k) == <<"sk_", k>>

\* randomBytes(32): the secret drawn for key k.
generateApiSecret(k) == <<"secret", k>>

\* SHA-256 digest, hex encoded: deterministic, and never the plaintext.
encryptApiSecret(secret) == <<"sha256", secret[2]>>

\* values a caller can put in the request body
MissingField == <<"", 0>>
MalformedKey == <<"pk_", 0>>
UnknownKey == <<"sk_", 0>>
WrongSecret == <<"secret", 0>>
PresentedKeys == {generateApiKey(k) : k \in KeyIds} \cup {UnknownKey, MalformedKey, MissingField}
PresentedSecrets == {generateApiSecret(k) : k \in KeyIds} \cup {WrongSecret, MissingField}

\* api_key.startsWith('sk_')
startsWithSk(apiKey) == apiKey[1] = "sk_"

\* JSON.stringify({ api_key: api_key.substring(0, 10) + '...' })
maskedBody(apiKey) == [api_key |-> <<"prefix", apiKey[2]>>, api_secret |-> MissingField]

\* JSON.stringify(req.body)
fullBody(apiKey, apiSecret) == [api_key |-> apiKey, api_secret |-> apiSecret]

\* --------------------------------------------------------------- tables
Null == 0

\* SubscriptionTiers: seeded rows, tier t has api_call_limit t
api_call_limit(t) == t

SUBSCRIPTION_STATUS == [PENDING |-> "pending", ACTIVE |-> "active",
                        EXPIRED |-> "expired", CANCELLED |-> "cancelled"]

\* SELECT ... FROM [ApiKeys] WHERE api_key = @apiKey
selectApiKeys(apiKey) == {k \in DOMAIN apiKeys : apiKeys[k].api_key = apiKey}

\* SELECT ... FROM [Users] WHERE id = @userId
selectUsers(userId) == {u \in DOMAIN users : u = userId}

\* (variant: pending subscriptions selected too)
selectOpenSubscriptions(userId) ==
    {s \in DOMAIN subs : subs[s].user_id = userId /\ subs[s].status \in {"active", "pending"}}

\* SELECT ... FROM [UserSubscriptions] us JOIN [SubscriptionTiers] st
\*   WHERE us.user_id = @userId AND us.status = 'active'
selectActiveSubscriptions(userId) ==
    {s \in DOMAIN subs : subs[s].user_id = userId /\ subs[s].status = SUBSCRIPTION_STATUS.ACTIVE}

\* (variant: rows of the first day's month left out)
countUsageAfterFirstDay(apiKeyId, firstDay) ==
    Cardinality({l \in apiLogs : l.api_key_id = apiKeyId /\ l.created_at > firstDay})

\* (variant: no lower bound on created_at)
countUsageAllTime(apiKeyId, firstDay) ==
    Cardinality({l \in apiLogs : l.api_key_id = apiKeyId})

\* SELECT COUNT(*) FROM [ApiLogs] WHERE api_key_id = @apiKeyId AND created_at >= @firstDay
countUsage(apiKeyId, firstDay) ==
    Cardinality({l \in apiLogs : l.api_key_id = apiKeyId /\ l.created_at >= firstDay})

\* ---------------------------------------------------- validateApiKey gates
Pass == [success |-> TRUE, statusCode |-> 200, errorCode |-> "OK"]
Reject(status, code) == [success |-> FALSE, statusCode |-> status, errorCode |-> code]
Thrown == [success |-> FALSE, statusCode |-> 0, errorCode |-> "THROWN"]
NoResult == [success |-> FALSE, statusCode |-> 0, errorCode |-> "NONE"]

\* (variant: is_active not looked at)
credentialGateNoActiveCheck(keyRows, apiSecret, clock) ==
    IF keyRows = {} THEN Reject(401, "INVALID_API_KEY")
    ELSE LET keyRecord == apiKeys[CHOOSE k \in keyRows : TRUE] IN
         IF encryptApiSecret(apiSecret) # keyRecord.api_secret_hash
            THEN Reject(401, "INVALID_API_SECRET")
         ELSE IF keyRecord.expires_at # Null /\ keyRecord.expires_at < clock
            THEN Reject(403, "API_KEY_EXPIRED")
         ELSE Pass

\* steps 2-5: key found, secret digest, is_active, expires_at
credentialGate(keyRows, apiSecret, clock) ==
    IF keyRows = {} THEN Reject(401, "INVALID_API_KEY")
    ELSE LET keyRecord == apiKeys[CHOOSE k \in keyRows : TRUE] IN
         IF encryptApiSecret(apiSecret) # keyRecord.api_secret_hash
            THEN Reject(401, "INVALID_API_SECRET")
         ELSE IF ~keyRecord.is_active THEN Reject(403, "API_KEY_INACTIVE")
         ELSE IF keyRecord.expires_at # Null /\ keyRecord.expires_at < clock
            THEN Reject(403, "API_KEY_EXPIRED")
         ELSE Pass

\* (variant: the blocked flag looked at before the active flag)
accountGateBlockedFirst(userRows) ==
    IF userRows = {} THEN Reject(403, "USER_NOT_FOUND")
    ELSE LET user == users[CHOOSE u \in userRows : TRUE] IN
         IF user.is_blocked THEN Reject(403, "USER_BLOCKED")
         ELSE IF ~user.is_active THEN Reject(403, "USER_INACTIVE")
         ELSE Pass

\* (variant: is_blocked not looked at)
accountGateNoBlockedCheck(userRows) ==
    IF userRows = {} THEN Reject(403, "USER_NOT_FOUND")
    ELSE LET user == users[CHOOSE u \in userRows : TRUE] IN
         IF ~user.is_active THEN Reject(403, "USER_INACTIVE")
         ELSE Pass

\* steps 6-8: owner exists, is_active, is_blocked
accountGate(userRows) ==
    IF userRows = {} THEN Reject(403, "USER_NOT_FOUND")
    ELSE LET user == users[CHOOSE u \in userRows : TRUE] IN
         IF ~user.is_active THEN Reject(403, "USER_INACTIVE")
         ELSE IF user.is_blocked THEN Reject(403, "USER_BLOCKED")
         ELSE Pass

\* step 9: an active subscription exists
subscriptionGate(subRows) ==
    IF subRows = {} THEN Reject(403, "SUBSCRIPTION_INACTIVE") ELSE Pass

\* (variant: the limit itself still admits)
quotaGateOffByOne(currentUsage, monthlyLimit) ==
    IF currentUsage > monthlyLimit THEN Reject(429, "API_LIMIT_EXCEEDED") ELSE Pass

\* step 10: currentUsage >= monthlyLimit
quotaGate(currentUsage, monthlyLimit) ==
    IF currentUsage >= monthlyLimit THEN Reject(429, "API_LIMIT_EXCEEDED") ELSE Pass


\* ------------------------------------------------------- request handlers
NoResponse == [status |-> 0, errorCode |-> "NONE"]

IdleReq == [pc |-> "idle", ep |-> "validate", api_key |-> MissingField,
            api_secret |-> MissingField, keyId |-> 0, userId |-> 0,
            monthlyLimit |-> 0, firstDay |-> 0, result |-> NoResult,
            resp |-> NoResponse, lu |-> "none",
            startMonth |-> 0, doneMonth |-> 0, faulted |-> FALSE,
            consulted |-> {}, afterRevoke |-> FALSE, overlapped |-> FALSE,
            logLost |-> FALSE, barred |-> FALSE, whitelisted |-> FALSE]

InFlight(r) == req[r].pc \notin {"idle", "done"}

\* the account owning the presented key is inactive or blocked
ownerBarred(apiKey) ==
    \E k \in selectApiKeys(apiKey) :
        LET u == apiKeys[k].user_id
        IN u \in DOMAIN users /\ (~users[u].is_active \/ users[u].is_blocked)

\* errorResponse(res, message, statusCode, errorCode) / successResponse(res, ...)
respond(q, status, code) ==
    [q EXCEPT !.pc = "done", !.resp = [status |-> status, errorCode |-> code],
              !.doneMonth = now]

\* the row logValidationAttempt / logImageValidationAttempt inserts
logRow(r, apiKeyId, userId, statusCode, body) ==
    [rid |-> r, api_key_id |-> apiKeyId, user_id |-> userId,
     status_code |-> statusCode, created_at |-> now, request_body |-> body]

\* requests of key k that have passed the quota read and not yet written their row
InWindow(k) == {r \in ReqIds : req[r].keyId = k /\ req[r].pc \in {"openai", "logAdmit"}}

\* controller, steps 1-3: body fields present, api_key starts with 'sk_'
Receive(r, ep, apiKey, apiSecret) ==
    /\ req[r].pc = "idle"
    /\ \A r2 \in ReqIds : r2 < r => req[r2].pc # "idle"
    /\ LET others == {r2 \in ReqIds : InFlight(r2)}
           q0 == [req[r] EXCEPT !.ep = ep, !.api_key = apiKey, !.api_secret = apiSecret,
                                !.startMonth = now, !.overlapped = (others # {}),
                                !.afterRevoke = (\E k \in revoked : generateApiKey(k) = apiKey),
                                !.barred = ownerBarred(apiKey)]
           q1 == IF apiKey = MissingField \/ apiSecret = MissingField
                    THEN respond(q0, 400, "MISSING_CREDENTIALS")
                 ELSE IF ~startsWithSk(apiKey)
                    THEN respond(q0, 400, "INVALID_API_KEY_FORMAT")
                 ELSE [q0 EXCEPT !.pc = "keys"]
       IN req' = [r2 \in ReqIds |->
                    IF r2 = r THEN q1
                    ELSE IF r2 \in others THEN [req[r2] EXCEPT !.overlapped = TRUE]
                    ELSE req[r2]]
    /\ UNCHANGED <<dbVars, peak, revoked, gen, usageVars, subReq, auxVars>>

\* a storage call of the service failed: validateApiKey rethrows, the controller catches
serviceThrows(r) ==
    req' = [req EXCEPT ![r] = [@ EXCEPT !.pc = "catch", !.result = Thrown, !.faulted = TRUE]]

\* service steps 1-5
QueryApiKeys(r, ok) ==
    /\ req[r].pc = "keys"
    /\ IF ~ok THEN serviceThrows(r)
       ELSE LET rows == selectApiKeys(req[r].api_key)
                g == credentialGate(rows, req[r].api_secret, now)
                q0 == [req[r] EXCEPT !.consulted = @ \cup {"ApiKeys"}]
            IN IF ~g.success
                  THEN req' = [req EXCEPT ![r] = [q0 EXCEPT !.pc = "logReject", !.result = g]]
                  ELSE LET k == CHOOSE k \in rows : TRUE
                       IN req' = [req EXCEPT ![r] =
                                    [q0 EXCEPT !.pc = "users", !.keyId = k,
                                               !.userId = apiKeys[k].user_id]]
    /\ UNCHANGED <<dbVars, peak, revoked, gen, usageVars, subReq, auxVars>>

\* service steps 6-8
QueryUsers(r, ok) ==
    /\ req[r].pc = "users"
    /\ IF ~ok THEN serviceThrows(r)
       ELSE LET g == accountGate(selectUsers(req[r].userId))
                q0 == [req[r] EXCEPT !.consulted = @ \cup {"Users"}]
            IN IF ~g.success
                  THEN req' = [req EXCEPT ![r] = [q0 EXCEPT !.pc = "logReject", !.result = g]]
                  ELSE req' = [req EXCEPT ![r] = [q0 EXCEPT !.pc = "subs"]]
    /\ UNCHANGED <<dbVars, peak, revoked, gen, usageVars, subReq, auxVars>>

\* service step 9, and the clock read that fixes firstDayOfMonth
QuerySubscriptions(r, ok) ==
    /\ req[r].pc = "subs"
    /\ IF ~ok THEN serviceThrows(r)
       ELSE LET rows == selectActiveSubscriptions(req[r].userId)
                g == subscriptionGate(rows)
                q0 == [req[r] EXCEPT !.consulted = @ \cup {"UserSubscriptions"}]
            IN IF ~g.success
                  THEN req' = [req EXCEPT ![r] = [q0 EXCEPT !.pc = "logReject", !.result = g]]
                  ELSE \E s \in rows :
                          req' = [req EXCEPT ![r] =
                                    [q0 EXCEPT !.pc = "usage",
                                               !.monthlyLimit = api_call_limit(subs[s].tier_id),
                                               !.firstDay = now]]
    /\ UNCHANGED <<dbVars, peak, revoked, gen, usageVars, subReq, auxVars>>

\* service steps 10-12: quota read, last_used update fired, success returned
QueryUsage(r, ok) ==
    /\ req[r].pc = "usage"
    /\ IF ~ok THEN serviceThrows(r) /\ UNCHANGED peak
       ELSE LET g == quotaGate(countUsage(req[r].keyId, req[r].firstDay), req[r].monthlyLimit)
                q0 == [req[r] EXCEPT !.consulted = @ \cup {"ApiLogs"}, !.result = g]
                k == req[r].keyId
                n == Cardinality(InWindow(k)) + 1
            IN IF ~g.success
                  THEN /\ req' = [req EXCEPT ![r] = [q0 EXCEPT !.pc = "logReject"]]
                       /\ UNCHANGED peak
                  ELSE /\ req' = [req EXCEPT ![r] =
                                    [q0 EXCEPT !.lu = "pending",
                                               !.pc = IF req[r].ep = "image" THEN "openai"
                                                      ELSE "logAdmit"]]
                       /\ peak' = [peak EXCEPT ![k] = IF n > @ THEN n ELSE @]
    /\ UNCHANGED <<dbVars, revoked, gen, usageVars, subReq, auxVars>>

\* (variant: a failed write surfaces as an exception in the request)
updateApiKeyLastUsedThrows(r, ok) ==
    /\ req[r].lu = "pending"
    /\ IF ok
          THEN /\ apiKeys' = [apiKeys EXCEPT ![req[r].keyId].last_used = now]
               /\ req' = [req EXCEPT ![r].lu = "none"]
          ELSE /\ UNCHANGED apiKeys
               /\ req' = [req EXCEPT ![r] = [@ EXCEPT !.lu = "none", !.result = Thrown,
                                                      !.pc = IF @ = "done" THEN @ ELSE "catch"]]
    /\ UNCHANGED <<users, subs, apiLogs, now, peak, revoked, gen, usageVars, subReq, auxVars>>

\* updateApiKeyLastUsed: the write completes some time later; a failure is swallowed
updateApiKeyLastUsed(r, ok) ==
    /\ req[r].lu = "pending"
    /\ IF ok
          THEN /\ apiKeys' = [apiKeys EXCEPT ![req[r].keyId].last_used = now]
               /\ req' = [req EXCEPT ![r].lu = "none"]
          ELSE /\ UNCHANGED apiKeys
               /\ req' = [req EXCEPT ![r].lu = "none"]
    /\ UNCHANGED <<users, subs, apiLogs, now, peak, revoked, gen, usageVars, subReq, auxVars>>

\* processImageValidate step 8: the OpenAI call; its failure is caught and the request goes on
analyzeImageWithOpenAI(r) ==
    /\ req[r].pc = "openai"
    /\ req' = [req EXCEPT ![r].pc = "logAdmit"]
    /\ UNCHANGED <<dbVars, peak, revoked, gen, usageVars, subReq, auxVars>>

\* a failed log insert: /api/validate-key awaits it inside the try, so the catch block
\* runs; /api/process-image-validate attaches .catch and answers as decided
afterLogFailure(r, status, code) ==
    IF req[r].ep = "validate"
       THEN [req[r] EXCEPT !.pc = "catch", !.faulted = TRUE]
       ELSE [respond(req[r], status, code) EXCEPT !.faulted = TRUE, !.logLost = TRUE]

\* (variant: a rejection answered without its log row)
LogRejectUnlogged(r, ok) ==
    /\ req[r].pc = "logReject"
    /\ req' = [req EXCEPT ![r] = respond(@, req[r].result.statusCode, req[r].result.errorCode)]
    /\ UNCHANGED <<dbVars, peak, revoked, gen, usageVars, subReq, auxVars>>

\* (variant: a rejection logged with status 200 and the credential's id)
LogRejectAsAdmitted(r, ok) ==
    /\ req[r].pc = "logReject"
    /\ LET res == req[r].result IN
       IF ok
          THEN /\ apiLogs' = apiLogs \cup
                     {logRow(r, req[r].keyId, req[r].userId, 200, maskedBody(req[r].api_key))}
               /\ req' = [req EXCEPT ![r] = respond(@, res.statusCode, res.errorCode)]
          ELSE /\ UNCHANGED apiLogs
               /\ req' = [req EXCEPT ![r] = afterLogFailure(r, res.statusCode, res.errorCode)]
    /\ UNCHANGED <<apiKeys, users, subs, now, peak, revoked, gen, usageVars, subReq, auxVars>>

\* controller: rejection logged with api_key_id null, then errorResponse
LogReject(r, ok) ==
    /\ req[r].pc = "logReject"
    /\ LET res == req[r].result IN
       IF ok
          THEN /\ apiLogs' = apiLogs \cup
                     {logRow(r, Null, Null, res.statusCode, maskedBody(req[r].api_key))}
               /\ req' = [req EXCEPT ![r] = respond(@, res.statusCode, res.errorCode)]
          ELSE /\ UNCHANGED apiLogs
               /\ req' = [req EXCEPT ![r] = afterLogFailure(r, res.statusCode, res.errorCode)]
    /\ UNCHANGED <<apiKeys, users, subs, now, peak, revoked, gen, usageVars, subReq, auxVars>>

\* controller: success logged with the credential's id, then successResponse
LogAdmit(r, ok) ==
    /\ req[r].pc = "logAdmit"
    /\ IF ok
          THEN /\ apiLogs' = apiLogs \cup
                     {logRow(r, req[r].keyId, req[r].userId, 200, maskedBody(req[r].api_key))}
               /\ req' = [req EXCEPT ![r] = respond(@, 200, "OK")]
          ELSE /\ UNCHANGED apiLogs
               /\ req' = [req EXCEPT ![r] = afterLogFailure(r, 200, "OK")]
    /\ UNCHANGED <<apiKeys, users, subs, now, peak, revoked, gen, usageVars, subReq, auxVars>>

\* (variant: the catch block answers like a rejection of the subscription gate)
CatchLogAsRejection(r, ok) ==
    /\ req[r].pc = "catch"
    /\ IF ok
          THEN apiLogs' = apiLogs \cup
                  {logRow(r, Null, Null, 403, fullBody(req[r].api_key, req[r].api_secret))}
          ELSE UNCHANGED apiLogs
    /\ req' = [req EXCEPT ![r] = [respond(@, 403, "SUBSCRIPTION_INACTIVE") EXCEPT
                                     !.faulted = TRUE, !.logLost = ~ok]]
    /\ UNCHANGED <<apiKeys, users, subs, now, peak, revoked, gen, usageVars, subReq, auxVars>>

\* controller catch block: logs status 500 with JSON.stringify(req.body), answers 500
CatchLog(r, ok) ==
    /\ req[r].pc = "catch"
    /\ IF ok
          THEN apiLogs' = apiLogs \cup
                  {logRow(r, Null, Null, 500, fullBody(req[r].api_key, req[r].api_secret))}
          ELSE UNCHANGED apiLogs
    /\ req' = [req EXCEPT ![r] = [respond(@, 500, "INTERNAL_ERROR") EXCEPT
                                     !.faulted = TRUE, !.logLost = ~ok]]
    /\ UNCHANGED <<apiKeys, users, subs, now, peak, revoked, gen, usageVars, subReq, auxVars>>


\* --------------------------------------------------- account operations
keyRow(userId, k, active, expires) ==
    [user_id |-> userId, api_key |-> generateApiKey(k),
     api_secret_hash |-> encryptApiSecret(generateApiSecret(k)),
     is_active |-> active, expires_at |-> expires, last_used |-> Null]

\* getUserSubscription: ORDER BY created_at DESC, first row (ids grow with created_at)
getUserSubscription(userId) ==
    LET mine == {s \in DOMAIN subs : subs[s].user_id = userId}
    IN IF mine = {} THEN {} ELSE {CHOOSE s \in mine : \A s2 \in mine : s2 <= s}

\* isSubscriptionActive: latest subscription is active and its end_date has not passed
isSubscriptionActive(userId) ==
    \E s \in getUserSubscription(userId) :
        /\ subs[s].status = SUBSCRIPTION_STATUS.ACTIVE
        /\ ~(subs[s].end_date # Null /\ subs[s].end_date < now)

\* the user has a subscription with status active whose end_date has not passed
holdsActiveSubscription(userId) ==
    \E s \in DOMAIN subs :
        /\ subs[s].user_id = userId
        /\ subs[s].status = SUBSCRIPTION_STATUS.ACTIVE
        /\ ~(subs[s].end_date # Null /\ subs[s].end_date < now)

IdleGen == [pc |-> "idle", userId |-> 0, outcome |-> "none", keyId |-> 0,
            held |-> FALSE, faulted |-> FALSE]

\* generateNewApiKey, step 1: the subscription check; throws when there is none
generateNewApiKeyCheck(u) ==
    /\ gen.pc = "idle"
    /\ DOMAIN apiKeys # KeyIds
    /\ gen' = IF isSubscriptionActive(u)
                 THEN [IdleGen EXCEPT !.pc = "insert", !.userId = u,
                                      !.held = holdsActiveSubscription(u)]
                 ELSE [IdleGen EXCEPT !.userId = u, !.outcome = "threw",
                                      !.held = holdsActiveSubscription(u)]
    /\ UNCHANGED <<dbVars, req, peak, revoked, usageVars, subReq, auxVars>>

\* generateNewApiKey, steps 2-7: key and secret drawn, the digest inserted
generateNewApiKeyInsert(ok) ==
    /\ gen.pc = "insert"
    /\ LET k == CHOOSE k \in KeyIds \ DOMAIN apiKeys : \A k2 \in KeyIds \ DOMAIN apiKeys : k <= k2
       IN apiKeys' = IF ok THEN apiKeys @@ (k :> keyRow(gen.userId, k, TRUE, Null)) ELSE apiKeys
    /\ gen' = [gen EXCEPT !.pc = "idle",
                          !.outcome = IF ok THEN "created" ELSE "threw",
                          !.keyId = IF ok THEN CHOOSE k \in KeyIds \ DOMAIN apiKeys :
                                                  \A k2 \in KeyIds \ DOMAIN apiKeys : k <= k2
                                    ELSE 0,
                          !.faulted = ~ok]
    /\ UNCHANGED <<users, subs, apiLogs, now, req, peak, revoked, usageVars, subReq, auxVars>>

\* (variant: revocation deletes the credential's log rows)
revokeApiKeyHardDelete(userId, keyId) ==
    /\ keyId \in DOMAIN apiKeys
    /\ apiKeys[keyId].user_id = userId
    /\ keyId \notin revoked
    /\ apiKeys' = [apiKeys EXCEPT ![keyId].is_active = FALSE]
    /\ apiLogs' = {l \in apiLogs : l.api_key_id # keyId}
    /\ revoked' = revoked \cup {keyId}
    /\ UNCHANGED <<users, subs, now, req, peak, gen, usageVars, subReq, auxVars>>

\* revokeApiKey: ownership check, then is_active = 0
revokeApiKey(userId, keyId) ==
    /\ keyId \in DOMAIN apiKeys
    /\ apiKeys[keyId].user_id = userId
    /\ keyId \notin revoked
    /\ apiKeys' = [apiKeys EXCEPT ![keyId].is_active = FALSE]
    /\ revoked' = revoked \cup {keyId}
    /\ UNCHANGED <<users, subs, apiLogs, now, req, peak, gen, usageVars, subReq, auxVars>>

\* blockUser: is_blocked = 1
blockUser(userId) ==
    /\ userId \in DOMAIN users
    /\ ~users[userId].is_blocked
    /\ users' = [users EXCEPT ![userId].is_blocked = TRUE]
    /\ UNCHANGED <<apiKeys, subs, apiLogs, now, reqVars, usageVars, subReq, auxVars>>

\* unblockUser: is_blocked = 0
unblockUser(userId) ==
    /\ userId \in DOMAIN users
    /\ users[userId].is_blocked
    /\ users' = [users EXCEPT ![userId].is_blocked = FALSE]
    /\ req' = [r \in ReqIds |->
                 IF \E k \in selectApiKeys(req[r].api_key) : apiKeys[k].user_id = userId
                    THEN [req[r] EXCEPT !.barred = @ /\ ~users[userId].is_active]
                    ELSE req[r]]
    /\ UNCHANGED <<apiKeys, subs, apiLogs, now, peak, revoked, gen, usageVars, subReq, auxVars>>

\* ------------------------------------------------ subscription lifecycle
IdleSubReq == [pc |-> "idle", userId |-> 0, tierId |-> 0]

\* requestSubscription, the two reads: an active subscription of the user, or a tier that
\* does not exist, makes it throw
requestSubscriptionCheck(i, userId, tierId, ok) ==
    /\ subReq[i].pc = "idle"
    /\ \A j \in DOMAIN subReq : j < i => subReq[j].pc # "idle"
    /\ subReq' = [subReq EXCEPT ![i] =
                    [pc |-> IF ok /\ selectActiveSubscriptions(userId) = {} /\ tierId \in TierIds
                               THEN "insert" ELSE "threw",
                     userId |-> userId, tierId |-> tierId]]
    /\ UNCHANGED <<dbVars, reqVars, usageVars, auxVars>>

\* requestSubscription, the write: INSERT ... status = 'pending' under a fresh id
requestSubscriptionInsert(i, ok) ==
    /\ subReq[i].pc = "insert"
    /\ DOMAIN subs # SubIds
    /\ LET id == CHOOSE s \in SubIds \ DOMAIN subs : \A s2 \in SubIds \ DOMAIN subs : s <= s2
       IN subs' = IF ok
                     THEN subs @@ (id :> [user_id |-> subReq[i].userId,
                                          tier_id |-> subReq[i].tierId,
                                          status |-> SUBSCRIPTION_STATUS.PENDING,
                                          end_date |-> Null])
                     ELSE subs
    /\ subReq' = [subReq EXCEPT ![i].pc = IF ok THEN "done" ELSE "threw"]
    /\ UNCHANGED <<apiKeys, users, apiLogs, now, reqVars, usageVars, auxVars>>

\* approveSubscription: UPDATE ... SET status = 'active' WHERE id = @subscriptionId
approveSubscription(subscriptionId) ==
    /\ subscriptionId \in DOMAIN subs
    /\ subs' = [subs EXCEPT ![subscriptionId].status = SUBSCRIPTION_STATUS.ACTIVE]
    /\ UNCHANGED <<apiKeys, users, apiLogs, now, reqVars, usageVars, subReq, auxVars>>

\* rejectSubscription: UPDATE ... SET status = 'cancelled' WHERE id = @subscriptionId
rejectSubscription(subscriptionId) ==
    /\ subscriptionId \in DOMAIN subs
    /\ subs' = [subs EXCEPT ![subscriptionId].status = SUBSCRIPTION_STATUS.CANCELLED]
    /\ UNCHANGED <<apiKeys, users, apiLogs, now, reqVars, usageVars, subReq, auxVars>>

\* the calendar moves on to the next month
Tick ==
    /\ now < MaxMonth
    /\ now' = now + 1
    /\ UNCHANGED <<apiKeys, users, subs, apiLogs, reqVars, usageVars, subReq, auxVars>>

\* ------------------------------------------------------- webhookService
WebhookIds == 1..MaxHooks

\* [Webhooks] rows of the user for the event: hooks[h] is is_active
IdleWh == [pc |-> "idle", hooks |-> [h \in WebhookIds |-> TRUE], queue |-> <<>>,
           attempt |-> 1, posts |-> [h \in WebhookIds |-> 0],
           delivered |-> [h \in WebhookIds |-> FALSE],
           resent |-> [h \in WebhookIds |-> FALSE],
           logs |-> {}, selected |-> FALSE]

RECURSIVE ascending(_)
\* the rows of a result set as the array the driver returns
ascending(ids) ==
    IF ids = {} THEN <<>>
    ELSE LET h == CHOOSE h \in ids : \A h2 \in ids : h <= h2
         IN <<h>> \o ascending(ids \ {h})

\* the loop moves on to the next webhook (break, or three attempts made)
nextWebhook(w) ==
    [w EXCEPT !.queue = Tail(@), !.attempt = 1,
              !.pc = IF Len(w.queue) > 1 THEN "post" ELSE "done"]

\* triggerWebhook: SELECT ... FROM [Webhooks] WHERE ... is_active = 1; a failure is caught
\* by the outer catch and ends the call
triggerWebhook(ok) ==
    /\ wh.pc = "idle"
    /\ LET rows == ascending({h \in WebhookIds : wh.hooks[h]})
       IN wh' = IF ok THEN [wh EXCEPT !.queue = rows, !.selected = TRUE,
                                      !.pc = IF rows = <<>> THEN "done" ELSE "post"]
                ELSE [wh EXCEPT !.pc = "done"]
    /\ UNCHANGED <<dbVars, reqVars, usageVars, subReq, client, timingLogsBuffer, timing>>

\* axios.post to the webhook at the head of the queue: a response, or an error / timeout
webhookPost(ok) ==
    /\ wh.pc = "post"
    /\ LET h == Head(wh.queue)
       IN wh' = [wh EXCEPT !.posts[h] = @ + 1,
                           !.resent[h] = @ \/ wh.delivered[h],
                           !.delivered[h] = @ \/ ok,
                           !.pc = IF ok THEN "logSuccess" ELSE "logFailure"]
    /\ UNCHANGED <<dbVars, reqVars, usageVars, subReq, client, timingLogsBuffer, timing>>

\* the WebhookLogs row of a delivered POST, then break; a failed insert throws inside the
\* try block and is caught like a failed POST
webhookLogSuccess(ok) ==
    /\ wh.pc = "logSuccess"
    /\ LET h == Head(wh.queue)
           row == [webhook_id |-> h, status_code |-> 200, attempt_number |-> wh.attempt]
       IN wh' = IF ok THEN nextWebhook([wh EXCEPT !.logs = @ \cup {row}])
                ELSE [wh EXCEPT !.pc = "logFailure"]
    /\ UNCHANGED <<dbVars, reqVars, usageVars, subReq, client, timingLogsBuffer, timing>>

\* the inner catch: the WebhookLogs row of a failed attempt, then the next attempt; a
\* failed insert leaves the loops and is caught by the outer catch
webhookLogFailure(ok) ==
    /\ wh.pc = "logFailure"
    /\ LET h == Head(wh.queue)
           row == [webhook_id |-> h, status_code |-> 0, attempt_number |-> wh.attempt]
           logged == [wh EXCEPT !.logs = @ \cup {row}]
       IN wh' = IF ~ok THEN [wh EXCEPT !.pc = "done"]
                ELSE IF wh.attempt = 3 THEN nextWebhook(logged)
                ELSE [logged EXCEPT !.attempt = @ + 1, !.pc = "post"]
    /\ UNCHANGED <<dbVars, reqVars, usageVars, subReq, client, timingLogsBuffer, timing>>

\* --------------------------------------------------------------- ApiClient
CallIds == 1..MaxCalls

\* HTTP answers of the server to a request of the browser; NetworkError is fetch rejecting
NetworkError == 0
Answers == {200, 401, 500, NetworkError}

IdleCall == [pc |-> "idle", _retry |-> FALSE, sends |-> 0, refreshes |-> 0,
             out |-> "none", status |-> 0]

\* constructor: this.isRefreshing = false
IdleClient == [isRefreshing |-> FALSE, loggedOut |-> FALSE,
               call |-> [c \in CallIds |-> IdleCall]]

\* what fetch does with a response it does not refresh on: parse the JSON and return it,
\* or throw for a status that is not ok
parseResponse(call, status) ==
    [call EXCEPT !.pc = "done", !.status = status,
                 !.out = IF status = 200 THEN "data" ELSE "threw"]

\* fetch up to its first await: build the config and send the request
clientFetch(c) ==
    /\ client.call[c].pc = "idle"
    /\ client' = [client EXCEPT !.call[c].pc = "sent", !.call[c].sends = @ + 1]
    /\ UNCHANGED <<dbVars, reqVars, usageVars, subReq, wh, timingLogsBuffer, timing>>

\* the answer to the first request arrives: on 401 either return the response as it is
\* (a refresh is running), or raise the flag and call refreshAccessToken
clientResponse(c, status) ==
    /\ client.call[c].pc = "sent"
    /\ LET call == client.call[c]
       IN client' =
            IF status = NetworkError
            THEN [client EXCEPT !.call[c] = [call EXCEPT !.pc = "done", !.out = "threw"]]
            ELSE IF status = 401 /\ ~call._retry
            THEN IF client.isRefreshing
                 THEN [client EXCEPT !.call[c] =
                          [call EXCEPT !.pc = "done", !.out = "response", !.status = 401]]
                 ELSE [client EXCEPT !.isRefreshing = TRUE,
                                     !.call[c] = [call EXCEPT !._retry = TRUE,
                                                              !.refreshes = @ + 1,
                                                              !.pc = "refreshing"]]
            ELSE [client EXCEPT !.call[c] = parseResponse(call, status)]
    /\ UNCHANGED <<dbVars, reqVars, usageVars, subReq, wh, timingLogsBuffer, timing>>

RefreshOutcomes == {"renewed", "refused", "failed"}

\* refreshAccessToken: true when the server issued a new token; false when there is no
\* refresh token or the server refused; an exception is caught and gives false
refreshAccessToken(outcome) == outcome = "renewed"

\* an uncaught exception in refreshAccessToken would leave fetch before it lowers the flag
clientRefreshReturnsUncaught(c, outcome) ==
    /\ client.call[c].pc = "refreshing"
    /\ LET call == client.call[c]
       IN client' =
            IF outcome = "failed"
            THEN [client EXCEPT !.call[c] = [call EXCEPT !.pc = "done", !.out = "threw"]]
            ELSE IF refreshAccessToken(outcome)
            THEN [client EXCEPT !.isRefreshing = FALSE,
                                !.call[c] = [call EXCEPT !.pc = "resent", !.sends = @ + 1]]
            ELSE [client EXCEPT !.isRefreshing = FALSE, !.loggedOut = TRUE,
                                !.call[c] = [call EXCEPT !.pc = "done", !.out = "undefined"]]
    /\ UNCHANGED <<dbVars, reqVars, usageVars, subReq, wh, timingLogsBuffer, timing>>

\* refreshAccessToken has returned: lower the flag, then re-send the request with the new
\* token, or log out and return nothing
clientRefreshReturns(c, outcome) ==
    /\ client.call[c].pc = "refreshing"
    /\ LET call == client.call[c]
       IN client' =
            IF refreshAccessToken(outcome)
            THEN [client EXCEPT !.isRefreshing = FALSE,
                                !.call[c] = [call EXCEPT !.pc = "resent", !.sends = @ + 1]]
            ELSE [client EXCEPT !.isRefreshing = FALSE, !.loggedOut = TRUE,
                                !.call[c] = [call EXCEPT !.pc = "done", !.out = "undefined"]]
    /\ UNCHANGED <<dbVars, reqVars, usageVars, subReq, wh, timingLogsBuffer, timing>>

\* a retried request that is answered 401 and is refreshed and sent once more
clientRetryResponseAgain(c, status) ==
    /\ client.call[c].pc = "resent"
    /\ LET call == client.call[c]
       IN client' =
            IF status = NetworkError
            THEN [client EXCEPT !.call[c] = [call EXCEPT !.pc = "done", !.out = "threw"]]
            ELSE IF status = 401 /\ call.sends < 3
            THEN [client EXCEPT !.call[c] = [call EXCEPT !.sends = @ + 1]]
            ELSE [client EXCEPT !.call[c] =
                     [call EXCEPT !.pc = "done", !.out = "response", !.status = status]]
    /\ UNCHANGED <<dbVars, reqVars, usageVars, subReq, wh, timingLogsBuffer, timing>>

\* the answer to the re-sent request: return await fetch(url, config) hands the response
\* to the caller whatever its status
clientRetryResponse(c, status) ==
    /\ client.call[c].pc = "resent"
    /\ LET call == client.call[c]
       IN client' =
            IF status = NetworkError
            THEN [client EXCEPT !.call[c] = [call EXCEPT !.pc = "done", !.out = "threw"]]
            ELSE [client EXCEPT !.call[c] =
                     [call EXCEPT !.pc = "done", !.out = "response", !.status = status]]
    /\ UNCHANGED <<dbVars, reqVars, usageVars, subReq, wh, timingLogsBuffer, timing>>

\* ------------------------------------------------- timing log (in memory)
MAX_TIMING_LOGS == 1000

NoLimit == -1
IdleTiming == [stored |-> 0, limit |-> NoLimit, logs |-> <<>>]

\* Array.prototype.slice(start) with no end
slice(array, start) ==
    LET len == Len(array)
        k == IF start < 0 THEN (IF len + start < 0 THEN 0 ELSE len + start)
             ELSE (IF start > len THEN len ELSE start)
    IN SubSeq(array, k + 1, len)

\* Array.prototype.reverse
reverse(array) == [i \in 1..Len(array) |-> array[Len(array) + 1 - i]]

\* a store that drops the entry just pushed instead of the oldest one
storeTimingLogDropsNewest ==
    /\ timing.stored < MaxStore
    /\ LET logEntry == timing.stored + 1
           pushed == Append(timingLogsBuffer, logEntry)
       IN timingLogsBuffer' = IF Len(pushed) > MAX_TIMING_LOGS
                              THEN SubSeq(pushed, 1, Len(pushed) - 1) ELSE pushed
    /\ timing' = [IdleTiming EXCEPT !.stored = timing.stored + 1]
    /\ UNCHANGED <<dbVars, reqVars, usageVars, subReq, wh, client>>

\* storeTimingLog: push the entry, then shift while over MAX_TIMING_LOGS; entries are
\* numbered in the order they are stored (an earlier getTimingLogs reply has been sent)
storeTimingLog ==
    /\ timing.stored < MaxStore
    /\ LET logEntry == timing.stored + 1
           pushed == Append(timingLogsBuffer, logEntry)
       IN timingLogsBuffer' = IF Len(pushed) > MAX_TIMING_LOGS THEN Tail(pushed) ELSE pushed
    /\ timing' = [IdleTiming EXCEPT !.stored = timing.stored + 1]
    /\ UNCHANGED <<dbVars, reqVars, usageVars, subReq, wh, client>>

\* getTimingLogs(limit): timingLogsBuffer.slice(-limit).reverse()
getTimingLogs(limit) ==
    /\ timing' = [timing EXCEPT !.limit = limit,
                                !.logs = reverse(slice(timingLogsBuffer, 0 - limit))]
    /\ UNCHANGED <<dbVars, reqVars, usageVars, subReq, wh, client, timingLogsBuffer>>

\* ------------------------------------------------------------- behaviours
UsageIdle ==
    /\ monthlyUsage = <<>>
    /\ inc = [i \in 1..MaxInc |-> [pc |-> "idle", apiKeyId |-> 0, period |-> 0,
                                   isSuccessful |-> TRUE]]

ReqIdle ==
    /\ req = [r \in ReqIds |-> IdleReq]
    /\ peak = [k \in KeyIds |-> 0]
    /\ revoked = {}
    /\ gen = IdleGen
    /\ wh = IdleWh
    /\ client = IdleClient
    /\ timingLogsBuffer = <<>>
    /\ timing = IdleTiming
    /\ subReq = [i \in SubIds |-> IdleSubReq]

\* the rows earlier admitted calls of key k left in ApiLogs this month
seededLogs(k, n, month) ==
    {[rid |-> 0 - i, api_key_id |-> k, user_id |-> 1, status_code |-> 200,
      created_at |-> month, request_body |-> maskedBody(generateApiKey(k))] : i \in 1..n}

\* one account with an approved subscription and one credential that has made
\* some of the calls its tier allows
Init ==
    /\ users = (1 :> [is_active |-> TRUE, is_blocked |-> FALSE])
    /\ \E t \in TierIds :
          subs = (1 :> [user_id |-> 1, tier_id |-> t,
                        status |-> SUBSCRIPTION_STATUS.ACTIVE, end_date |-> Null])
    /\ apiKeys = (1 :> keyRow(1, 1, TRUE, Null))
    /\ \E n \in 0..api_call_limit(subs[1].tier_id) : apiLogs = seededLogs(1, n, 1)
    /\ now = 1
    /\ ReqIdle
    /\ UsageIdle

Pipeline(r) ==
    \/ \E ok \in BOOLEAN : QueryApiKeys(r, ok)
    \/ \E ok \in BOOLEAN : QueryUsers(r, ok)
    \/ \E ok \in BOOLEAN : QuerySubscriptions(r, ok)
    \/ \E ok \in BOOLEAN : QueryUsage(r, ok)
    \/ \E ok \in BOOLEAN : updateApiKeyLastUsed(r, ok)
    \/ analyzeImageWithOpenAI(r)
    \/ \E ok \in BOOLEAN : LogReject(r, ok)
    \/ \E ok \in BOOLEAN : LogAdmit(r, ok)
    \/ \E ok \in BOOLEAN : CatchLog(r, ok)

\* callers of the main behaviour hold a credential: they send its key and secret
Next ==
    \/ \E r \in ReqIds, ep \in {"validate", "image"}, k \in DOMAIN apiKeys :
          Receive(r, ep, generateApiKey(k), generateApiSecret(k))
    \/ \E r \in ReqIds : Pipeline(r)
    \/ \E u \in UserIds, k \in KeyIds : revokeApiKey(u, k)
    \/ \E u \in UserIds : blockUser(u)
    \/ \E u \in UserIds : unblockUser(u)
    \/ Tick

Spec == Init /\ [][Next]_vars

\* one request, any body, against any content of the tables
InitGates ==
    /\ now \in Months
    /\ users \in {<<>>} \cup
          {(1 :> [is_active |-> a, is_blocked |-> b]) : a \in BOOLEAN, b \in BOOLEAN}
    /\ subs \in {<<>>} \cup
          {(1 :> [user_id |-> 1, tier_id |-> t, status |-> st, end_date |-> e]) :
              t \in TierIds, e \in {Null} \cup Months,
              st \in {"pending", "active", "expired", "cancelled"}}
    /\ apiKeys \in {<<>>} \cup
          {(1 :> keyRow(1, 1, a, e)) : a \in BOOLEAN, e \in {Null} \cup Months}
    /\ \E n \in 0..MaxTier : apiLogs = seededLogs(1, n, now)
    /\ ReqIdle
    /\ UsageIdle

NextGates ==
    \/ \E ep \in {"validate", "image"}, apiKey \in PresentedKeys, apiSecret \in PresentedSecrets :
          Receive(1, ep, apiKey, apiSecret)
    \/ Pipeline(1)

SpecGates == InitGates /\ [][NextGates]_vars


\* credentials being issued and revoked, whatever the owner's subscription is
InitKeys ==
    /\ now = 1
    /\ users = (1 :> [is_active |-> TRUE, is_blocked |-> FALSE])
    /\ \E n \in 0..MaxSubs :
          subs \in [1..n -> [user_id : UserIds, tier_id : {1}, end_date : {Null} \cup Months,
                            status : {"pending", "active", "expired", "cancelled"}]]
    /\ apiKeys = <<>>
    /\ apiLogs = {}
    /\ ReqIdle
    /\ UsageIdle

NextKeys ==
    \/ \E u \in UserIds : generateNewApiKeyCheck(u)
    \/ \E ok \in BOOLEAN : generateNewApiKeyInsert(ok)
    \/ \E u \in UserIds, k \in KeyIds : revokeApiKey(u, k)
    \/ Tick

SpecKeys == InitKeys /\ [][NextKeys]_vars

\* two credentials of one account whose flags an administrator changes while requests run
InitAccount ==
    /\ now = 1
    /\ \E a \in BOOLEAN, b \in BOOLEAN : users = (1 :> [is_active |-> a, is_blocked |-> b])
    /\ \E t \in TierIds :
          subs = (1 :> [user_id |-> 1, tier_id |-> t,
                        status |-> SUBSCRIPTION_STATUS.ACTIVE, end_date |-> Null])
    /\ apiKeys = [k \in KeyIds |-> keyRow(1, k, TRUE, Null)]
    /\ apiLogs = {}
    /\ ReqIdle
    /\ UsageIdle

NextAccount ==
    \/ \E r \in ReqIds, ep \in {"validate", "image"}, k \in DOMAIN apiKeys :
          Receive(r, ep, generateApiKey(k), generateApiSecret(k))
    \/ \E r \in ReqIds : Pipeline(r)
    \/ \E u \in UserIds : blockUser(u)
    \/ \E u \in UserIds : unblockUser(u)

SpecAccount == InitAccount /\ [][NextAccount]_vars

\* an account without subscriptions requesting them, an administrator deciding on them
InitSubs ==
    /\ now = 1
    /\ users = (1 :> [is_active |-> TRUE, is_blocked |-> FALSE])
    /\ subs = <<>>
    /\ apiKeys = (1 :> keyRow(1, 1, TRUE, Null))
    /\ apiLogs = {}
    /\ ReqIdle
    /\ UsageIdle

NextSubs ==
    \/ \E i \in SubIds, u \in UserIds, t \in TierIds \cup {0}, ok \in BOOLEAN :
          requestSubscriptionCheck(i, u, t, ok)
    \/ \E i \in SubIds, ok \in BOOLEAN : requestSubscriptionInsert(i, ok)
    \/ \E s \in SubIds : approveSubscription(s)
    \/ \E s \in SubIds : rejectSubscription(s)

SpecSubs == InitSubs /\ [][NextSubs]_vars

\* ------------------------------------------------- validateApiKeyMiddleware
\* executeQuery returns result.recordset, an array of rows.  Reading a column off the array
\* itself (keys.id, users.is_active, monthlyUsage.total_requests) yields undefined.
Undefined == [defined |-> FALSE, value |-> 0]
arrayProp(rows, column) == Undefined

\* !v of a flag read that way
falsy(v) == ~v.defined \/ v.value = 0

\* a >= b with a possibly undefined: undefined >= n is false
jsGte(a, b) == a.defined /\ a.value >= b

\* WHERE id = @id with the parameter bound to v: an undefined parameter matches no row
whereId(ids, v) == {i \in ids : v.defined /\ i = v.value}

\* apiKeyService.validateApiKey, the SELECT: key, digest and is_active = 1 in the WHERE
selectValidKeys(apiKey, apiSecret) ==
    {k \in DOMAIN apiKeys : /\ apiKeys[k].api_key = apiKey
                            /\ apiKeys[k].api_secret_hash = encryptApiSecret(apiSecret)
                            /\ apiKeys[k].is_active}

\* middleware steps 7-14, after the account check: subscription, usage, limit, next()
middlewareAfterAccount(userId, keyId) ==
    LET active == \E u \in whereId(UserIds, userId) : isSubscriptionActive(u)
        usageRows == {j \in DOMAIN monthlyUsage :
                         \E k \in whereId(KeyIds, keyId) : monthlyUsage[j].api_key_id = k}
        currentUsage == IF usageRows # {} THEN arrayProp(usageRows, "total_requests")
                        ELSE [defined |-> TRUE, value |-> 0]
        subscription == UNION {getUserSubscription(u) : u \in whereId(UserIds, userId)}
    IN IF ~active THEN [status |-> 403, errorCode |-> "SUBSCRIPTION_INACTIVE"]
       ELSE IF \E s \in subscription : jsGte(currentUsage, api_call_limit(subs[s].tier_id))
          THEN [status |-> 429, errorCode |-> "API_LIMIT_EXCEEDED"]
       ELSE [status |-> 0, errorCode |-> "NEXT"]

\* middleware steps 1-2: the two headers
middlewareReceive(r, apiKey, apiSecret) ==
    /\ req[r].pc = "idle"
    /\ LET q0 == [req[r] EXCEPT !.ep = "middleware", !.api_key = apiKey,
                                !.api_secret = apiSecret, !.startMonth = now]
       IN req' = [req EXCEPT ![r] =
                    IF apiKey = MissingField \/ apiSecret = MissingField
                       THEN respond(q0, 401, "MISSING_CREDENTIALS")
                       ELSE [q0 EXCEPT !.pc = "mwKeys"]]
    /\ UNCHANGED <<dbVars, peak, revoked, gen, usageVars, subReq, auxVars>>

\* the catch block of the middleware: errorResponse(res, err.message, 500)
middlewareCatch(q) == [respond(q, 500, "INTERNAL_ERROR") EXCEPT !.faulted = TRUE]

\* step 3, apiKeyService.validateApiKey: no matching row makes it throw
middlewareQueryApiKeys(r, ok) ==
    /\ req[r].pc = "mwKeys"
    /\ req' = [req EXCEPT ![r] =
                 IF ~ok \/ selectValidKeys(req[r].api_key, req[r].api_secret) = {}
                    THEN middlewareCatch(@)
                    ELSE [@ EXCEPT !.pc = "mwLastUsed", !.consulted = @ \cup {"ApiKeys"}]]
    /\ UNCHANGED <<dbVars, peak, revoked, gen, usageVars, subReq, auxVars>>

\* step 3, continued: UPDATE [ApiKeys] SET last_used ... WHERE id = keys.id
middlewareUpdateLastUsed(r, ok) ==
    /\ req[r].pc = "mwLastUsed"
    /\ LET keys == selectValidKeys(req[r].api_key, req[r].api_secret)
           hit == whereId(DOMAIN apiKeys, arrayProp(keys, "id"))
       IN /\ apiKeys' = [k \in DOMAIN apiKeys |->
                           IF ok /\ k \in hit THEN [apiKeys[k] EXCEPT !.last_used = now]
                           ELSE apiKeys[k]]
          /\ req' = [req EXCEPT ![r] = IF ok THEN [@ EXCEPT !.pc = "mwUsers"]
                                       ELSE middlewareCatch(@)]
    /\ UNCHANGED <<users, subs, apiLogs, now, peak, revoked, gen, usageVars, subReq, auxVars>>

\* steps 4-14: keyInfo is the array, which is never falsy, so step 4 rejects nothing;
\* keyInfo.user_id and keyInfo.id are undefined; the account check reads users.is_active
\* and users.is_blocked off the array
middlewareQueryUsers(r, ok) ==
    /\ req[r].pc = "mwUsers"
    /\ LET keyInfo == selectValidKeys(req[r].api_key, req[r].api_secret)
           userId == arrayProp(keyInfo, "user_id")
           usersRows == whereId(DOMAIN users, userId)
           rest == middlewareAfterAccount(userId, arrayProp(keyInfo, "id"))
       IN req' = [req EXCEPT ![r] =
                    IF ~ok THEN middlewareCatch(@)
                    ELSE IF \/ usersRows = {}
                            \/ falsy(arrayProp(usersRows, "is_active"))
                            \/ ~falsy(arrayProp(usersRows, "is_blocked"))
                       THEN respond([@ EXCEPT !.consulted = @ \cup {"Users"}],
                                    403, "USER_BLOCKED")
                    ELSE IF rest.errorCode = "NEXT" THEN [@ EXCEPT !.pc = "next"]
                    ELSE respond(@, rest.status, rest.errorCode)]
    /\ UNCHANGED <<dbVars, peak, revoked, gen, usageVars, subReq, auxVars>>

\* ------------------------------------------------------ apiKeyRateLimiter
\* requests allowed per key and hour
HourlyLimit == 1000

\* new Date(now - 60 * 60 * 1000); the clock of the limiter counts hours
oneHourAgo(clock) == clock - 1

\* api_key_id = @apiKey: the column holds the id of the key, the parameter is the value of
\* the x-api-key header ('sk_' + hex), which is no id
idMatchesHeader(apiKeyId, apiKey) == FALSE

\* SELECT COUNT(*) as count FROM [ApiLogs] WHERE api_key_id = @apiKey AND created_at > @oneHourAgo
\* : an array of one row
selectHourlyCount(apiKey, since) ==
    {[count |-> Cardinality({l \in apiLogs : /\ idMatchesHeader(l.api_key_id, apiKey)
                                            /\ l.created_at > since})]}

\* steps 1-3: whitelisted addresses and requests without x-api-key pass at once
limiterReceive(r, whitelisted, apiKey) ==
    /\ req[r].pc = "idle"
    /\ req' = [req EXCEPT ![r] =
                 [@ EXCEPT !.ep = "limiter", !.api_key = apiKey, !.whitelisted = whitelisted,
                           !.startMonth = now,
                           !.pc = IF whitelisted \/ apiKey = MissingField
                                     THEN "next" ELSE "rlQuery"]]
    /\ UNCHANGED <<dbVars, peak, revoked, gen, usageVars, subReq, auxVars>>

\* steps 4-9: the count of the last hour against the limit; a failed query lets the
\* request pass
limiterQuery(r, ok) ==
    /\ req[r].pc = "rlQuery"
    /\ LET result == selectHourlyCount(req[r].api_key, oneHourAgo(now))
           requestCount == IF Cardinality(result) > 0 THEN arrayProp(result, "count")
                           ELSE [defined |-> TRUE, value |-> 0]
       IN req' = [req EXCEPT ![r] =
                    IF ~ok THEN [@ EXCEPT !.pc = "next", !.faulted = TRUE]
                    ELSE IF jsGte(requestCount, HourlyLimit)
                       THEN respond(@, 429, "RATE_LIMIT_EXCEEDED")
                    ELSE [@ EXCEPT !.pc = "next"]]
    /\ UNCHANGED <<dbVars, peak, revoked, gen, usageVars, subReq, auxVars>>

\* ------------------------------------------------------ rateLimitService
usageRow(apiKeyId, period, isSuccessful) ==
    [api_key_id |-> apiKeyId, period |-> period, total_requests |-> 1,
     successful_requests |-> IF isSuccessful THEN 1 ELSE 0,
     failed_requests |-> IF isSuccessful THEN 0 ELSE 1]

\* SELECT * FROM [MonthlyUsage] WHERE api_key_id = @apiKeyId AND year = @year AND month = @month
selectMonthlyUsage(apiKeyId, period) ==
    {j \in DOMAIN monthlyUsage :
        monthlyUsage[j].api_key_id = apiKeyId /\ monthlyUsage[j].period = period}

IdleInc == [pc |-> "idle", apiKeyId |-> 0, period |-> 0, isSuccessful |-> TRUE]

\* incrementApiCall: the period is read off the clock, then the existing row is looked up
incrementApiCallRead(i, apiKeyId, isSuccessful) ==
    /\ inc[i].pc = "idle"
    /\ inc' = [inc EXCEPT ![i] =
                 [pc |-> IF selectMonthlyUsage(apiKeyId, now) # {} THEN "update" ELSE "insert",
                  apiKeyId |-> apiKeyId, period |-> now, isSuccessful |-> isSuccessful]]
    /\ UNCHANGED <<dbVars, reqVars, monthlyUsage, subReq, auxVars>>

\* incrementApiCall, existing.length > 0: UPDATE ... SET total_requests = total_requests + 1
incrementApiCallUpdate(i) ==
    /\ inc[i].pc = "update"
    /\ LET hit == selectMonthlyUsage(inc[i].apiKeyId, inc[i].period)
       IN monthlyUsage' =
            [j \in DOMAIN monthlyUsage |->
               IF j \in hit
                  THEN [monthlyUsage[j] EXCEPT
                          !.total_requests = @ + 1,
                          !.successful_requests = IF inc[i].isSuccessful THEN @ + 1 ELSE @,
                          !.failed_requests = IF inc[i].isSuccessful THEN @ ELSE @ + 1]
                  ELSE monthlyUsage[j]]
    /\ inc' = [inc EXCEPT ![i].pc = "done"]
    /\ UNCHANGED <<dbVars, reqVars, subReq, auxVars>>

\* incrementApiCall, no row seen: INSERT ... total_requests = 1.  When another invocation has
\* inserted the period's row meanwhile, a unique key on (api_key_id, year, month) makes the
\* insert fail and the call throw; without one the table gets a second row.
incrementApiCallInsert(i, uniqueKey) ==
    /\ inc[i].pc = "insert"
    /\ IF selectMonthlyUsage(inc[i].apiKeyId, inc[i].period) # {} /\ uniqueKey
          THEN /\ UNCHANGED monthlyUsage
               /\ inc' = [inc EXCEPT ![i].pc = "threw"]
          ELSE /\ monthlyUsage' = Append(monthlyUsage,
                                    usageRow(inc[i].apiKeyId, inc[i].period, inc[i].isSuccessful))
               /\ inc' = [inc EXCEPT ![i].pc = "done"]
    /\ UNCHANGED <<dbVars, reqVars, subReq, auxVars>>

\* getMonthlyUsage: the period's rows, or a zero record when there are none
getMonthlyUsage(apiKeyId) ==
    IF selectMonthlyUsage(apiKeyId, now) # {}
       THEN {monthlyUsage[j] : j \in selectMonthlyUsage(apiKeyId, now)}
       ELSE {[api_key_id |-> apiKeyId, period |-> now, total_requests |-> 0,
              successful_requests |-> 0, failed_requests |-> 0]}

InitUsage ==
    /\ now = 1
    /\ users = (1 :> [is_active |-> TRUE, is_blocked |-> FALSE])
    /\ subs = <<>>
    /\ apiKeys = (1 :> keyRow(1, 1, TRUE, Null))
    /\ apiLogs = {}
    /\ ReqIdle
    /\ monthlyUsage = <<>>
    /\ inc = [i \in 1..MaxInc |-> IdleInc]

NextUsage ==
    \/ \E i \in 1..MaxInc, ok \in BOOLEAN : incrementApiCallRead(i, 1, ok)
    \/ \E i \in 1..MaxInc : incrementApiCallUpdate(i)
    \/ \E i \in 1..MaxInc, uniqueKey \in BOOLEAN : incrementApiCallInsert(i, uniqueKey)

SpecUsage == InitUsage /\ [][NextUsage]_vars


\* one request through validateApiKeyMiddleware, any headers, any content of the tables
NextMiddleware ==
    \/ \E apiKey \in PresentedKeys, apiSecret \in PresentedSecrets :
          middlewareReceive(1, apiKey, apiSecret)
    \/ \E ok \in BOOLEAN : middlewareQueryApiKeys(1, ok)
    \/ \E ok \in BOOLEAN : middlewareUpdateLastUsed(1, ok)
    \/ \E ok \in BOOLEAN : middlewareQueryUsers(1, ok)

SpecMiddleware == InitGates /\ [][NextMiddleware]_vars


\* one request through apiKeyRateLimiter; the key has made few calls in the last hour, or
\* about as many as the limit
InitLimiter ==
    /\ now = MaxMonth
    /\ users = (1 :> [is_active |-> TRUE, is_blocked |-> FALSE])
    /\ subs = (1 :> [user_id |-> 1, tier_id |-> 1,
                     status |-> SUBSCRIPTION_STATUS.ACTIVE, end_date |-> Null])
    /\ apiKeys = (1 :> keyRow(1, 1, TRUE, Null))
    /\ \E n \in (0..3) \cup ((HourlyLimit - 2)..(HourlyLimit + 1)), m \in {now - 1, now} :
          apiLogs = seededLogs(1, n, m)
    /\ ReqIdle
    /\ UsageIdle

NextLimiter ==
    \/ \E whitelisted \in BOOLEAN, apiKey \in PresentedKeys :
          limiterReceive(1, whitelisted, apiKey)
    \/ \E ok \in BOOLEAN : limiterQuery(1, ok)

SpecLimiter == InitLimiter /\ [][NextLimiter]_vars

\* one triggerWebhook call for an event, over any set of active webhooks
InitWebhooks ==
    /\ now = 1
    /\ users = (1 :> [is_active |-> TRUE, is_blocked |-> FALSE])
    /\ subs = <<>>
    /\ apiKeys = <<>>
    /\ apiLogs = {}
    /\ req = [r \in ReqIds |-> IdleReq]
    /\ peak = [k \in KeyIds |-> 0]
    /\ revoked = {}
    /\ gen = IdleGen
    /\ UsageIdle
    /\ subReq = [i \in SubIds |-> IdleSubReq]
    /\ \E active \in SUBSET WebhookIds :
          wh = [IdleWh EXCEPT !.hooks = [h \in WebhookIds |-> h \in active]]
    /\ client = IdleClient
    /\ timingLogsBuffer = <<>>
    /\ timing = IdleTiming

NextWebhooks ==
    \/ \E ok \in BOOLEAN : triggerWebhook(ok)
    \/ \E ok \in BOOLEAN : webhookPost(ok)
    \/ \E ok \in BOOLEAN : webhookLogSuccess(ok)
    \/ \E ok \in BOOLEAN : webhookLogFailure(ok)

SpecWebhooks == InitWebhooks /\ [][NextWebhooks]_vars

\* concurrent ApiClient.fetch calls of one page against any server behaviour
NextClient ==
    \/ \E c \in CallIds : clientFetch(c)
    \/ \E c \in CallIds, status \in Answers : clientResponse(c, status)
    \/ \E c \in CallIds, outcome \in RefreshOutcomes : clientRefreshReturns(c, outcome)
    \/ \E c \in CallIds, status \in Answers : clientRetryResponse(c, status)

SpecClient == Init /\ [][NextClient]_vars

\* the image endpoint storing timing entries and the operator reading them
NextTiming ==
    \/ storeTimingLog
    \/ \E limit \in 0..MaxLimit : getTimingLogs(limit)

SpecTiming == Init /\ [][NextTiming]_vars

\* ================================================================ claims
\* the service has returned its decision to the controller, which has not logged it yet
Decided(r) == req[r].pc \in {"logReject", "openai", "logAdmit"}

\* The nine conditions a request can fail on, each stated on the tables alone, in the
\* order the contract fixes.
FailingConditions(r) ==
    LET ks == {k \in DOMAIN apiKeys : apiKeys[k].api_key = req[r].api_key}
        k == CHOOSE k \in ks : TRUE
        owner == apiKeys[k].user_id
        active == {s \in DOMAIN subs : subs[s].user_id = owner /\ subs[s].status = "active"}
        used == Cardinality({l \in apiLogs : l.api_key_id = k /\ l.created_at >= now})
    IN << <<"INVALID_API_KEY", ks = {}>>,
          <<"INVALID_API_SECRET",
            ks # {} /\ apiKeys[k].api_secret_hash # encryptApiSecret(req[r].api_secret)>>,
          <<"API_KEY_INACTIVE", ks # {} /\ ~apiKeys[k].is_active>>,
          <<"API_KEY_EXPIRED",
            ks # {} /\ apiKeys[k].expires_at # Null /\ apiKeys[k].expires_at < now>>,
          <<"USER_NOT_FOUND", ks # {} /\ owner \notin DOMAIN users>>,
          <<"USER_INACTIVE", ks # {} /\ owner \in DOMAIN users /\ ~users[owner].is_active>>,
          <<"USER_BLOCKED", ks # {} /\ owner \in DOMAIN users /\ users[owner].is_blocked>>,
          <<"SUBSCRIPTION_INACTIVE", ks # {} /\ active = {}>>,
          <<"API_LIMIT_EXCEEDED",
            ks # {} /\ \E s \in active : used >= api_call_limit(subs[s].tier_id)>> >>

EarliestFailing(r) ==
    LET fc == FailingConditions(r)
        failing == {i \in DOMAIN fc : fc[i][2]}
    IN IF failing = {} THEN "OK"
       ELSE fc[CHOOSE i \in failing : \A j \in failing : i <= j][1]

\* the tables a request has to read to reach each decision
TablesFor(code) ==
    IF code \in {"INVALID_API_KEY", "INVALID_API_SECRET", "API_KEY_INACTIVE", "API_KEY_EXPIRED"}
       THEN {"ApiKeys"}
    ELSE IF code \in {"USER_NOT_FOUND", "USER_INACTIVE", "USER_BLOCKED"}
       THEN {"ApiKeys", "Users"}
    ELSE IF code = "SUBSCRIPTION_INACTIVE" THEN {"ApiKeys", "Users", "UserSubscriptions"}
    ELSE {"ApiKeys", "Users", "UserSubscriptions", "ApiLogs"}

\* C1: whatever combination of conditions fails, validateApiKey returns the code of the
\* earliest failing gate in the fixed order, and has read no table of a later gate.
C1_EarliestGateDecides ==
    \A r \in ReqIds :
        Decided(r) =>
            /\ req[r].result.errorCode = EarliestFailing(r)
            /\ req[r].consulted = TablesFor(req[r].result.errorCode)

\* a blocked account without any active subscription is answered USER_BLOCKED
C1_Witness ==
    \E r \in ReqIds :
        /\ Decided(r)
        /\ req[r].result.errorCode = "USER_BLOCKED"
        /\ FailingConditions(r)[8][2]


Done(r) == req[r].pc = "done"
Admitted(r) == Done(r) /\ req[r].resp.status = 200
Started(r) == req[r].pc # "idle"

\* the limit of the tier the owner of key k subscribes to
LimitOf(k) ==
    LET s == CHOOSE s \in DOMAIN subs : subs[s].user_id = apiKeys[k].user_id
    IN api_call_limit(subs[s].tier_id)

\* calls of key k admitted before the behaviour began, in month m
UsedEarlier(k, m) ==
    Cardinality({l \in apiLogs : l.rid <= 0 /\ l.api_key_id = k /\ l.created_at = m})

\* calls of key k answered 200 in month m
AdmittedIn(k, m) ==
    UsedEarlier(k, m) +
    Cardinality({r \in ReqIds : Admitted(r) /\ req[r].keyId = k /\ req[r].doneMonth = m})

\* every request so far went to POST /api/validate-key
OnlyValidate == \A r \in ReqIds : Started(r) => req[r].ep = "validate"

\* no request was received while another was being served
OneAfterAnother == \A r \in ReqIds : ~req[r].overlapped

\* the quota gate decided the answer of r
AnsweredByQuota(r) == Done(r) /\ req[r].resp.errorCode \in {"OK", "API_LIMIT_EXCEEDED"}

\* C2: validate requests of one credential issued one after another within one month are
\* admitted as long as fewer than L calls were admitted before them in that month, and
\* are answered 429 API_LIMIT_EXCEEDED from then on.
C2_FirstLAdmitted ==
    (OnlyValidate /\ OneAfterAnother) =>
        \A r \in ReqIds :
            (AnsweredByQuota(r) /\ req[r].startMonth = req[r].doneMonth) =>
                LET k == req[r].keyId
                    before == UsedEarlier(k, req[r].startMonth) +
                              Cardinality({r2 \in ReqIds : r2 < r /\ Admitted(r2)
                                                /\ req[r2].keyId = k
                                                /\ req[r2].doneMonth = req[r].startMonth})
                IN IF before < LimitOf(k)
                      THEN req[r].resp = [status |-> 200, errorCode |-> "OK"]
                      ELSE req[r].resp = [status |-> 429, errorCode |-> "API_LIMIT_EXCEEDED"]

\* limit 1, no earlier usage: the first request admitted, the second answered 429
C2_Witness ==
    /\ OnlyValidate /\ OneAfterAnother
    /\ LimitOf(1) = 1 /\ UsedEarlier(1, 1) = 0
    /\ req[1].resp = [status |-> 200, errorCode |-> "OK"]
    /\ req[2].resp = [status |-> 429, errorCode |-> "API_LIMIT_EXCEEDED"]
    /\ req[2].startMonth = 1 /\ req[2].doneMonth = 1


RECURSIVE SumTotalRequests(_)
SumTotalRequests(rows) ==
    IF rows = <<>> THEN 0 ELSE Head(rows).total_requests + SumTotalRequests(Tail(rows))

\* total_requests recorded for key k in period p, over every row of the period
TotalRecorded(k, p) ==
    SumTotalRequests(SelectSeq(monthlyUsage, LAMBDA row : row.api_key_id = k /\ row.period = p))

IncFinished == \A i \in DOMAIN inc : inc[i].pc \in {"done", "threw"}

\* C3: once K concurrent incrementApiCall invocations for one credential and one period have
\* all returned, the period's total_requests is K, whatever the order of their reads and writes.
C3_NoLostUpdate == IncFinished => TotalRecorded(1, 1) = Cardinality(DOMAIN inc)


\* the plaintext secrets of the credentials that exist
IssuedSecrets == {generateApiSecret(k) : k \in DOMAIN apiKeys}

\* C4: no ApiKeys row and no ApiLogs row, request_body included, holds the plaintext secret
\* of a credential.
C4_SecretNeverPersisted ==
    /\ \A k \in DOMAIN apiKeys :
          /\ apiKeys[k].api_secret_hash \notin IssuedSecrets
          /\ apiKeys[k].api_key \notin IssuedSecrets
    /\ \A l \in apiLogs :
          /\ l.request_body.api_secret \notin IssuedSecrets
          /\ l.request_body.api_key \notin IssuedSecrets

\* the request got past the body checks, so validateApiKey was called for it
EnteredPipeline(r) == Done(r) /\ req[r].resp.status # 400

LogRowsOf(r) == {l \in apiLogs : l.rid = r}

\* validateApiKey returned a decision for r (it did not throw)
HasDecision(r) == req[r].result.statusCode # 0

C6_LogFailureKeepsOutcome ==
    \A r \in ReqIds :
        (Done(r) /\ HasDecision(r)) =>
            req[r].resp = [status |-> req[r].result.statusCode,
                           errorCode |-> req[r].result.errorCode]

\* C7: on POST /api/validate-key the calls of a credential admitted in one month never
\* exceed the limit by more than the requests that were between quota read and log write
\* together with another one; without such concurrency they never exceed the limit.
C7_BoundedOvershoot ==
    OnlyValidate =>
        \A k \in DOMAIN apiKeys, m \in Months :
            AdmittedIn(k, m) <= LimitOf(k) + (IF peak[k] > 1 THEN peak[k] - 1 ELSE 0)

\* two requests passed the quota read together at the limit and both were admitted
C7_Witness ==
    /\ OnlyValidate
    /\ \E k \in DOMAIN apiKeys, m \in Months :
          /\ peak[k] = 2
          /\ AdmittedIn(k, m) = LimitOf(k) + 1
          /\ \A r \in ReqIds : Admitted(r)

\* C8: a call answered 200 has left exactly one row the next quota read counts.
C8_AdmittedCountedOnce ==
    \A r \in ReqIds :
        Admitted(r) =>
            Cardinality({l \in LogRowsOf(r) : l.api_key_id = req[r].keyId}) = 1

\* no other request of the credential was received or answered in the month r began
FirstOfMonth(r) ==
    /\ UsedEarlier(req[r].keyId, req[r].startMonth) = 0
    /\ \A r2 \in ReqIds \ {r} :
          Started(r2) => (Done(r2) /\ req[r2].doneMonth < req[r].startMonth)

\* C9: the first request of a credential in a month is not rejected for quota, however
\* much the credential used in the month before.
C9_MonthRollover ==
    \A r \in ReqIds : (AnsweredByQuota(r) /\ FirstOfMonth(r)) => req[r].resp.status = 200

\* rejected for quota in month 1, admitted in month 2
C9_Witness ==
    \E r1, r2 \in ReqIds :
        /\ req[r1].resp = [status |-> 429, errorCode |-> "API_LIMIT_EXCEEDED"]
        /\ req[r1].doneMonth = 1
        /\ req[r2].keyId = req[r1].keyId
        /\ req[r2].startMonth = 2
        /\ FirstOfMonth(r2)
        /\ req[r2].resp.status = 200

\* C10: a revoked credential stays inactive, and every validate call received after the
\* revocation with its key and secret is decided API_KEY_INACTIVE and never answered 200.
C10_RevocationPermanent ==
    /\ \A k \in revoked : ~apiKeys[k].is_active
    /\ \A r \in ReqIds :
          (req[r].afterRevoke /\ req[r].api_secret = generateApiSecret(req[r].api_key[2])) =>
              /\ HasDecision(r) => req[r].result.errorCode = "API_KEY_INACTIVE"
              /\ req[r].resp.status # 200

\* a credential admitted before its revocation and rejected as inactive after it
C10_Witness ==
    \E r1, r2 \in ReqIds :
        /\ Admitted(r1)
        /\ req[r2].api_key = req[r1].api_key
        /\ req[r2].afterRevoke
        /\ req[r2].resp = [status |-> 403, errorCode |-> "API_KEY_INACTIVE"]


\* C11: a request received while the owner of its credential is inactive or blocked, the
\* account not having been unblocked since, is never answered 200; unless a storage call
\* fails it is answered USER_INACTIVE or USER_BLOCKED, whichever credential of the owner it
\* presents and whatever was admitted before the account was blocked.
C11_AccountStateGatesAll ==
    \A r \in ReqIds :
        req[r].barred =>
            /\ req[r].resp.status # 200
            /\ (Done(r) /\ ~req[r].faulted) =>
                  req[r].resp.errorCode \in {"USER_INACTIVE", "USER_BLOCKED"}

\* a credential admitted, the account blocked, and the other credential then turned away
C11_Witness ==
    \E r1, r2 \in ReqIds :
        /\ Admitted(r1)
        /\ req[r2].barred
        /\ req[r2].api_key # req[r1].api_key
        /\ req[r2].resp = [status |-> 403, errorCode |-> "USER_BLOCKED"]


ActiveSubscriptionsOf(u) ==
    {s \in DOMAIN subs : subs[s].user_id = u /\ subs[s].status = SUBSCRIPTION_STATUS.ACTIVE}

\* C12: no account ever has two subscriptions in status active.
C12_AtMostOneActive == \A u \in UserIds : Cardinality(ActiveSubscriptionsOf(u)) <= 1


\* the subscriptions of user u that are active by status and by date
EffectiveSubscriptionsOf(u) ==
    {s \in ActiveSubscriptionsOf(u) : ~(subs[s].end_date # Null /\ subs[s].end_date < now)}

\* validateApiKey let r past the subscription gate
PastSubscriptionGate(r) ==
    Decided(r) /\ req[r].result.errorCode \in {"OK", "API_LIMIT_EXCEEDED"}

\* C13: a request gets past the subscription gate only when its owner has a subscription
\* that is active and whose end_date has not passed; one with status active and a past
\* end_date is answered SUBSCRIPTION_INACTIVE like no subscription at all.
C13_EndDateRederived ==
    \A r \in ReqIds : PastSubscriptionGate(r) => EffectiveSubscriptionsOf(req[r].userId) # {}


\* the codes of the business rejections
BusinessCodes ==
    {"INVALID_API_KEY", "INVALID_API_SECRET", "API_KEY_INACTIVE", "API_KEY_EXPIRED",
     "USER_NOT_FOUND", "USER_INACTIVE", "USER_BLOCKED", "SUBSCRIPTION_INACTIVE",
     "API_LIMIT_EXCEEDED"}

\* a storage call of validateApiKey failed while it served r
GateFaulted(r) == req[r].result = Thrown

\* C14: a request one of whose gate queries failed is never answered 200; it is answered
\* 500 with a code that is none of the business rejection codes.
C14_FaultIsItsOwnOutcome ==
    \A r \in ReqIds :
        GateFaulted(r) =>
            /\ req[r].resp.status # 200
            /\ Done(r) => /\ req[r].resp.status = 500
                          /\ req[r].resp.errorCode \notin BusinessCodes \cup {"OK"}

\* the usage query of an otherwise admissible request failed and 500 was answered
C14_Witness ==
    \E r \in ReqIds :
        /\ GateFaulted(r)
        /\ req[r].consulted = {"ApiKeys", "Users", "UserSubscriptions"}
        /\ req[r].resp = [status |-> 500, errorCode |-> "INTERNAL_ERROR"]


\* the status changes the lifecycle allows
AllowedTransitions ==
    {<<"pending", "active">>, <<"pending", "cancelled">>,
     <<"active", "expired">>, <<"active", "cancelled">>}

\* C15: a subscription is created pending, and its status changes only along
\* pending -> active -> expired / cancelled and pending -> cancelled; a cancelled or
\* expired subscription never becomes active again.
C15_Lifecycle ==
    [][ /\ \A s \in DOMAIN subs' \ DOMAIN subs : subs'[s].status = "pending"
        /\ \A s \in DOMAIN subs :
              subs'[s].status # subs[s].status =>
                  <<subs[s].status, subs'[s].status>> \in AllowedTransitions ]_vars


\* the accounts owning the key r presents
OwnersOf(r) == {apiKeys[k].user_id : k \in selectApiKeys(req[r].api_key)}

\* C16: when no subscription of the owner has status active (all are pending, cancelled
\* or expired), a request is never answered 200, and one that reaches the subscription
\* gate is decided SUBSCRIPTION_INACTIVE, whatever its usage.
C16_NoAccessWithoutActive ==
    \A r \in ReqIds :
        (\A u \in OwnersOf(r) : ActiveSubscriptionsOf(u) = {}) =>
            /\ req[r].resp.status # 200
            /\ (Decided(r) /\ "UserSubscriptions" \in req[r].consulted) =>
                  req[r].result.errorCode = "SUBSCRIPTION_INACTIVE"

\* a pending subscription, usage still open, and the request rejected at the gate
C16_Witness ==
    \E r \in ReqIds, s \in DOMAIN subs :
        /\ subs[s].status = "pending"
        /\ subs[s].user_id \in OwnersOf(r)
        /\ countUsage(req[r].keyId, now) < api_call_limit(subs[s].tier_id)
        /\ req[r].resp = [status |-> 403, errorCode |-> "SUBSCRIPTION_INACTIVE"]


\* C17: the step in which validateApiKey fires the last_used write is the step in which it
\* returns the admitted result, and the completion of that write, failed or not, changes
\* nothing else of the request: not its result, its position or its answer.
C17_LastUsedBestEffort ==
    [][ \A r \in ReqIds :
           /\ (req[r].lu # "pending" /\ req'[r].lu = "pending") =>
                 (req'[r].result = Pass /\ req'[r].pc \in {"openai", "logAdmit"})
           /\ (req[r].lu = "pending" /\ req'[r].lu = "none") =>
                 req'[r] = [req[r] EXCEPT !.lu = "none"] ]_vars

\* a request answered 200 although every last_used write of its credential failed
C17_Witness ==
    \E r \in ReqIds :
        /\ Admitted(r)
        /\ req[r].lu = "none"
        /\ apiKeys[req[r].keyId].last_used = Null


\* C18: the ApiLogs row written for a request carries the HTTP status of the answer sent
\* for it; the row of a rejection has api_key_id null, the row of an admission the id of
\* the credential.
C18_EntryReflectsOutcome ==
    \A l \in apiLogs :
        l.rid \in ReqIds =>
            /\ Done(l.rid)
            /\ l.status_code = req[l.rid].resp.status
            /\ l.api_key_id = (IF req[l.rid].resp.status = 200 THEN req[l.rid].keyId ELSE Null)

\* a known key with a wrong secret: answered 401, logged with 401 and no credential id
C18_Witness ==
    \E l \in apiLogs :
        /\ l.rid \in ReqIds
        /\ req[l.rid].resp = [status |-> 401, errorCode |-> "INVALID_API_SECRET"]
        /\ l.status_code = 401
        /\ l.api_key_id = Null


\* C19: MonthlyUsage never holds two rows for one (api_key_id, year, month).
C19_OneRowPerPeriod ==
    \A k \in KeyIds, p \in Months : Cardinality(selectMonthlyUsage(k, p)) <= 1


\* everything the middleware is to check holds for the headers of r
FullyValid(r) ==
    \E k \in DOMAIN apiKeys :
        LET u == apiKeys[k].user_id IN
        /\ apiKeys[k].api_key = req[r].api_key
        /\ apiKeys[k].api_secret_hash = encryptApiSecret(req[r].api_secret)
        /\ apiKeys[k].is_active
        /\ u \in DOMAIN users /\ users[u].is_active /\ ~users[u].is_blocked
        /\ isSubscriptionActive(u)
        /\ \A s \in getUserSubscription(u) : TotalRecorded(k, now) < api_call_limit(subs[s].tier_id)

\* the middleware has finished with r: it answered or called next()
MiddlewareFinished(r) == req[r].ep = "middleware" /\ req[r].pc \in {"done", "next"}

\* C20: for a fully valid request, no storage call failing, validateApiKeyMiddleware calls
\* next() and sends no error response.
C20_ValidRequestPasses ==
    \A r \in ReqIds :
        (MiddlewareFinished(r) /\ FullyValid(r) /\ ~req[r].faulted) =>
            (req[r].pc = "next" /\ req[r].resp = NoResponse)


\* the last generateNewApiKey call has returned or thrown
GenFinished == gen.pc = "idle" /\ gen.outcome # "none"

\* C21: a generateNewApiKey call whose storage calls succeed creates an active credential
\* when the user held, at the time of the call, a subscription with status active and an
\* end_date not passed, and throws without inserting a row otherwise.
C21_CreatesIffActive ==
    (GenFinished /\ ~gen.faulted) =>
        /\ gen.outcome = "created" <=> gen.held
        /\ gen.outcome = "created" =>
              (gen.keyId \in DOMAIN apiKeys /\ apiKeys[gen.keyId].user_id = gen.userId)


\* the ApiLogs rows of the presented key that are younger than an hour
CallsInLastHour(r) ==
    Cardinality({l \in apiLogs : /\ \E k \in selectApiKeys(req[r].api_key) : l.api_key_id = k
                                 /\ l.created_at > now - 1})

\* C22: a request that is not whitelisted and carries x-api-key is answered 429, without
\* next(), when its key has 1000 or more ApiLogs rows in the last hour, and is passed on
\* with next() when it has fewer.
C22_HourlyLimitEnforced ==
    \A r \in ReqIds :
        ( /\ req[r].ep = "limiter" /\ req[r].pc \in {"done", "next"}
          /\ ~req[r].whitelisted /\ req[r].api_key # MissingField /\ ~req[r].faulted ) =>
            IF CallsInLastHour(r) >= HourlyLimit
               THEN req[r].pc = "done" /\ req[r].resp.status = 429
               ELSE req[r].pc = "next"


\* C23: while the calendar month stays the same, no step lowers the usage the quota check
\* reads for a credential.
C23_UsageMonotonic ==
    [][ now' = now =>
           \A k \in KeyIds : countUsage(k, now)' >= countUsage(k, now) ]_vars

\* a credential whose usage grew in this month and that was revoked afterwards
C23_Witness ==
    \E k \in revoked, r \in ReqIds :
        /\ Admitted(r) /\ req[r].keyId = k /\ req[r].doneMonth = now
        /\ countUsage(k, now) > UsedEarlier(k, now)


\* C24: triggerWebhook sends a webhook at most three POSTs, and none after one of them has
\* succeeded, the WebhookLogs insert of the successful attempt failing or not.
C24_StopsAtFirstSuccess ==
    \A h \in WebhookIds : wh.posts[h] <= 3 /\ ~wh.resent[h]

\* C25: when a triggerWebhook call that read its webhooks ends, every active webhook of
\* the event has been sent at least one POST, whatever failed for the others.
C25_EveryWebhookAttempted ==
    (wh.pc = "done" /\ wh.selected) => \A h \in WebhookIds : wh.hooks[h] => wh.posts[h] >= 1


Refreshing == {c \in CallIds : client.call[c].pc = "refreshing"}

\* C26: over every interleaving of concurrent fetch calls at most one refreshAccessToken
\* call is in progress, and isRefreshing is false whenever none is, however the last
\* refresh ended.
C26_SingleFlight ==
    /\ Cardinality(Refreshing) <= 1
    /\ Refreshing = {} => ~client.isRefreshing

\* a refresh ended without a new token after another call was turned away by the flag,
\* and a later call has started a refresh of its own
C26_Witness ==
    \E c1, c2, c3 \in CallIds :
        /\ client.call[c1].out = "undefined"
        /\ client.call[c2].out = "response" /\ client.call[c2].refreshes = 0
        /\ client.call[c3].pc = "refreshing"

\* C27: a fetch call sends its request at most twice and refreshes at most once; the
\* answer to the re-sent request ends the call whatever its status.
C27_BoundedRetries ==
    \A c \in CallIds :
        /\ client.call[c].sends <= 2
        /\ client.call[c].refreshes <= 1
        /\ client.call[c].sends = 2 => client.call[c].refreshes = 1

\* a call answered 401 twice has ended after two sends and one refresh
C27_Witness ==
    \E c \in CallIds :
        /\ client.call[c].pc = "done" /\ client.call[c].out = "response"
        /\ client.call[c].status = 401
        /\ client.call[c].sends = 2 /\ client.call[c].refreshes = 1


\* C28: after any sequence of storeTimingLog calls the buffer holds at most 1000 entries,
\* and they are the most recently stored ones in the order they were stored.
C28_BoundedNewest ==
    LET len == Len(timingLogsBuffer)
    IN /\ len <= MAX_TIMING_LOGS
       /\ len = (IF timing.stored < MAX_TIMING_LOGS THEN timing.stored ELSE MAX_TIMING_LOGS)
       /\ \A i \in 1..len : timingLogsBuffer[i] = timing.stored - len + i

\* more than 1000 entries were stored and the oldest ones are gone
C28_Witness ==
    /\ timing.stored > MAX_TIMING_LOGS
    /\ Len(timingLogsBuffer) = MAX_TIMING_LOGS
    /\ timingLogsBuffer[1] = timing.stored - MAX_TIMING_LOGS + 1

\* C29: getTimingLogs(limit) returns at most limit entries, the most recently stored ones
\* newest first, for every limit from 0 upwards and every buffer content.
C29_AtMostLimit ==
    timing.limit # NoLimit =>
        /\ Len(timing.logs) <= timing.limit
        /\ \A i \in 1..Len(timing.logs) :
              timing.logs[i] = timingLogsBuffer[Len(timingLogsBuffer) + 1 - i]

====
